---- MODULE Spec2Model ----
(***************************************************************************)
(* Model of the three entry points of the repository:                      *)
(*   - benchmark_wasmer   (arbitrator/polyglot/src/benchmarks.rs)          *)
(*   - br::write_wat_ops  (stylus_benchmark/src/scenarios/br.rs)           *)
(*   - br_table::write_wat_ops (stylus_benchmark/src/scenarios/br_table.rs)*)
(* A behaviour runs one of them, chosen in Init (variable prog).           *)
(*                                                                         *)
(* A line of WAT text is a record [indent, tok, args]: the number of       *)
(* leading spaces, the token written after them (kept verbatim, so         *)
(* "(block" and "(block " differ) and the numbers that follow it.          *)
(***************************************************************************)
EXTENDS Integers, Sequences, FiniteSets

VARIABLES
    prog,        \* entry point being run: "bench", "br" or "br_table"
    pc,          \* position inside that entry point
    \* ---- WAT synthesizers
    wat,         \* the Vec<u8> buffer, as a sequence of lines
    wat0,        \* the buffer as it was when write_wat_ops was called
    ops,         \* number_of_ops_per_loop_iteration
    table_size,  \* table_size (br_table only)
    k,           \* iterations of the outer loop completed
    j,           \* index of the running inner loop / write
    identation,  \* length of the `identation` string (spaces only)
    br_table,    \* targets pushed on the `br_table` string so far
    \* ---- benchmark harness
    m,           \* index in Labels of the measurement being performed
    printed,     \* labels of the lines printed so far
    attempted,   \* labels of the measurements started so far
    data,        \* native(): the digest buffer, 0 is the all-zero buffer
    iter,        \* native(): keccak rounds done
    live,        \* ids of the Stores that exist
    nextStore,   \* id the next Store built gets
    store,       \* id of the Store this measurement owns, 0 when it owns none
    cfg,         \* compiler configuration of the Store of this measurement
    uses,        \* log of [store, step, meas]: what each Store was used for
    steps,       \* steps of this measurement that succeeded
    timer,       \* Instant::now() has been taken in this measurement
    duration,    \* time.elapsed() has been returned by this measurement
    err          \* step whose error ended the run, "none" otherwise

watVars == <<wat, wat0, ops, table_size, k, j, identation, br_table>>
benchVars == <<m, printed, attempted, data, iter, live, nextStore, store, cfg,
               uses, steps, timer, duration, err>>
vars == <<prog, pc, wat, wat0, ops, table_size, k, j, identation, br_table,
          m, printed, attempted, data, iter, live, nextStore, store, cfg,
          uses, steps, timer, duration, err>>

\* ------------------------------------------------------------------ bounds
MaxOps == 3
MaxTable == 3
MaxDigest == 1

\* ---------------------------------------------------------- WAT text lines
Line(n, t, a) == [indent |-> n, tok |-> t, args |-> a]

IsOpen(l) == l.tok \in {"(block", "(block "}
IsClose(l) == l.tok = ")"

\* Buffers write_wat_ops may be handed: empty, or holding an enclosing header.
InitialBuffers == {<<>>, <<Line(8, "(loop", <<>>)>>}

\* ------------------------------------------------------------------ br.rs
BrUnitBadTarget ==
    << Line(12, "(block", <<>>), Line(16, "(block ", <<>>),
       Line(20, "(block ", <<>>), Line(24, "br", <<3>>),
       Line(20, ")", <<>>), Line(16, ")", <<>>), Line(12, ")", <<>>) >>

BrUnitUnbalanced ==
    << Line(12, "(block", <<>>), Line(16, "(block ", <<>>),
       Line(20, "(block ", <<>>), Line(24, "br", <<2>>),
       Line(20, ")", <<>>), Line(16, ")", <<>>), Line(12, ")", <<>>),
       Line(12, ")", <<>>) >>

\* The writes of one loop iteration, in program order.
BrUnit ==
    << Line(12, "(block", <<>>), Line(16, "(block ", <<>>),
       Line(20, "(block ", <<>>), Line(24, "br", <<2>>),
       Line(20, ")", <<>>), Line(16, ")", <<>>), Line(12, ")", <<>>) >>

\* for _ in 0..number_of_ops_per_loop_iteration
BrLoopGuard(i, n) == i < n

BrIterate ==
    /\ prog = "br" /\ pc = "br_loop"
    /\ BrLoopGuard(k, ops)
    /\ pc' = "br_body" /\ j' = 0
    /\ UNCHANGED <<prog, wat, wat0, ops, table_size, k, identation, br_table>>
    /\ UNCHANGED benchVars

BrWrite ==
    /\ prog = "br" /\ pc = "br_body"
    /\ j < Len(BrUnit)
    /\ wat' = Append(wat, BrUnit[j + 1])
    /\ j' = j + 1
    /\ UNCHANGED <<prog, pc, wat0, ops, table_size, k, identation, br_table>>
    /\ UNCHANGED benchVars

BrEndUnit ==
    /\ prog = "br" /\ pc = "br_body"
    /\ j >= Len(BrUnit)
    /\ k' = k + 1 /\ pc' = "br_loop"
    /\ UNCHANGED <<prog, wat, wat0, ops, table_size, j, identation, br_table>>
    /\ UNCHANGED benchVars

BrReturn ==
    /\ prog = "br" /\ pc = "br_loop"
    /\ ~BrLoopGuard(k, ops)
    /\ pc' = "done"
    /\ UNCHANGED <<prog>> /\ UNCHANGED watVars /\ UNCHANGED benchVars

\* ------------------------------------------------------------ br_table.rs
\* String::pop removes the last char, and does nothing on an empty string.
Pop(n) == IF n > 0 THEN n - 1 ELSE 0

rm_identation(n) == Pop(Pop(Pop(Pop(n))))

BtSelectorInRange(ts) == IF ts > 0 THEN ts - 1 ELSE 0

\* the value formatted into "i32.const {}"
BtSelector(ts) == ts

BtTargetShifted(i) == i + 1

\* the value formatted into " {}" for loop index i of 0..table_size
BtTarget(i) == i

BtLoopGuardOffByOne(i, n) == i <= n

\* for _ in 0..number_of_ops_per_loop_iteration
BtLoopGuard(i, n) == i < n

BtIterate ==
    /\ prog = "br_table" /\ pc = "bt_loop"
    /\ BtLoopGuard(k, ops)
    /\ identation' = 12
    /\ j' = 0 /\ pc' = "bt_open"
    /\ UNCHANGED <<prog, wat, wat0, ops, table_size, k, br_table>>
    /\ UNCHANGED benchVars

BtOpen ==
    /\ prog = "br_table" /\ pc = "bt_open"
    /\ j < table_size
    /\ wat' = Append(wat, Line(identation, "(block", <<>>))
    /\ identation' = identation + 4
    /\ j' = j + 1
    /\ UNCHANGED <<prog, pc, wat0, ops, table_size, k, br_table>>
    /\ UNCHANGED benchVars

BtConst ==
    /\ prog = "br_table" /\ pc = "bt_open"
    /\ j >= table_size
    /\ wat' = Append(wat, Line(identation, "i32.const", <<BtSelector(table_size)>>))
    /\ br_table' = <<>>
    /\ j' = 0 /\ pc' = "bt_table"
    /\ UNCHANGED <<prog, wat0, ops, table_size, k, identation>>
    /\ UNCHANGED benchVars

BtPush ==
    /\ prog = "br_table" /\ pc = "bt_table"
    /\ j < table_size
    /\ br_table' = Append(br_table, BtTarget(j))
    /\ j' = j + 1
    /\ UNCHANGED <<prog, pc, wat, wat0, ops, table_size, k, identation>>
    /\ UNCHANGED benchVars

BtWriteTable ==
    /\ prog = "br_table" /\ pc = "bt_table"
    /\ j >= table_size
    /\ wat' = Append(wat, Line(identation, "br_table", br_table))
    /\ j' = 0 /\ pc' = "bt_close"
    /\ UNCHANGED <<prog, wat0, ops, table_size, k, identation, br_table>>
    /\ UNCHANGED benchVars

BtClose ==
    /\ prog = "br_table" /\ pc = "bt_close"
    /\ j < table_size
    /\ identation' = rm_identation(identation)
    /\ wat' = Append(wat, Line(identation', ")", <<>>))
    /\ j' = j + 1
    /\ UNCHANGED <<prog, pc, wat0, ops, table_size, k, br_table>>
    /\ UNCHANGED benchVars

BtEndUnit ==
    /\ prog = "br_table" /\ pc = "bt_close"
    /\ j >= table_size
    /\ k' = k + 1 /\ pc' = "bt_loop"
    /\ UNCHANGED <<prog, wat, wat0, ops, table_size, j, identation, br_table>>
    /\ UNCHANGED benchVars

BtReturn ==
    /\ prog = "br_table" /\ pc = "bt_loop"
    /\ ~BtLoopGuard(k, ops)
    /\ pc' = "done"
    /\ UNCHANGED <<prog>> /\ UNCHANGED watVars /\ UNCHANGED benchVars

\* ---------------------------------------------------------- benchmarks.rs
LabelsSwapped == <<"Native", "Crane", "LLVM", "Single", "Poly">>

\* labels of the println! lines of benchmark_wasmer, in program order
Labels == <<"Native", "LLVM", "Crane", "Single", "Poly">>

\* for _ in 0..100
KeccakRounds == 100

NoCfg ==
    [compiler |-> "none", canonicalize_nans |-> FALSE, verifier |-> FALSE,
     opt_level |-> "none"]

single ==
    [compiler |-> "Singlepass", canonicalize_nans |-> TRUE, verifier |-> TRUE,
     opt_level |-> "none"]

cranelift ==
    [compiler |-> "Cranelift", canonicalize_nans |-> TRUE, verifier |-> TRUE,
     opt_level |-> "Speed"]

llvm ==
    [compiler |-> "LLVM", canonicalize_nans |-> TRUE, verifier |-> TRUE,
     opt_level |-> "Aggressive"]

\* the Store builder whose result is passed to emulated() by measurement i
Builder(i) == CASE i = 2 -> llvm [] i = 3 -> cranelift [] OTHER -> single

AfterErrorContinue(i) == [pc |-> "main", m |-> i + 1]

\* `?` in benchmark_wasmer: the Err of measurement i is returned at once
AfterError(i) == [pc |-> "failed", m |-> i]

StoresKept(s) == live

\* the Store owned by a measurement is dropped when the measurement returns
StoresAfterDrop(s) == live \ {s}

NativeCheckSkipped(d) == TRUE

\* assert_ne!(data, [0; 32])
NativeCheck(d) == d # 0

TimerTakenAtEntry == TRUE

\* a module measurement takes no timestamp on entry: its Instant::now() is
\* the statement between get_typed_function(..)? and main.call(..)
TimerAtEntry == FALSE

Use(s, step) == [store |-> s, step |-> step, meas |-> Labels[m]]

\* an `?` that returns Err out of the measurement and out of benchmark_wasmer
Fail(step) ==
    /\ err' = step
    /\ live' = StoresAfterDrop(store)
    /\ store' = 0
    /\ pc' = AfterError(m).pc
    /\ m' = AfterError(m).m

NativeStart ==
    /\ prog = "bench" /\ pc = "main" /\ m = 1
    /\ attempted' = Append(attempted, Labels[m])
    /\ timer' = TRUE /\ duration' = FALSE /\ steps' = {}
    /\ data' = 0 /\ iter' = 0
    /\ pc' = "native_loop"
    /\ UNCHANGED <<prog, m, printed, live, nextStore, store, cfg, uses, err>>
    /\ UNCHANGED watVars

NativeKeccak ==
    /\ prog = "bench" /\ pc = "native_loop"
    /\ iter < KeccakRounds
    /\ \E d \in 0..MaxDigest : data' = d
    /\ iter' = iter + 1
    /\ UNCHANGED <<prog, pc, m, printed, attempted, live, nextStore, store, cfg,
                   uses, steps, timer, duration, err>>
    /\ UNCHANGED watVars

NativeAssertPass ==
    /\ prog = "bench" /\ pc = "native_loop"
    /\ iter >= KeccakRounds
    /\ NativeCheck(data)
    /\ duration' = TRUE
    /\ pc' = "print"
    /\ UNCHANGED <<prog, m, printed, attempted, data, iter, live, nextStore,
                   store, cfg, uses, steps, timer, err>>
    /\ UNCHANGED watVars

NativeAssertPanic ==
    /\ prog = "bench" /\ pc = "native_loop"
    /\ iter >= KeccakRounds
    /\ ~NativeCheck(data)
    /\ err' = "assert_ne"
    /\ pc' = "panicked"
    /\ UNCHANGED <<prog, m, printed, attempted, data, iter, live, nextStore,
                   store, cfg, uses, steps, timer, duration>>
    /\ UNCHANGED watVars

Report ==
    /\ prog = "bench" /\ pc = "print"
    /\ printed' = Append(printed, Labels[m])
    /\ IF m < Len(Labels)
         THEN m' = m + 1 /\ pc' = "main"
         ELSE m' = m /\ pc' = "ok"
    /\ UNCHANGED <<prog, attempted, data, iter, live, nextStore, store, cfg,
                   uses, steps, timer, duration, err>>
    /\ UNCHANGED watVars

BuildStore ==
    /\ prog = "bench" /\ pc = "main" /\ m \in 2..4
    /\ attempted' = Append(attempted, Labels[m])
    /\ timer' = TimerAtEntry /\ duration' = FALSE /\ steps' = {}
    /\ cfg' = Builder(m)
    /\ live' = live \cup {nextStore}
    /\ store' = nextStore
    /\ nextStore' = nextStore + 1
    /\ pc' = "em_read"
    /\ UNCHANGED <<prog, m, printed, data, iter, uses, err>>
    /\ UNCHANGED watVars

EmRead ==
    /\ prog = "bench" /\ pc = "em_read"
    /\ \E ok \in BOOLEAN :
         IF ok
           THEN /\ steps' = steps \cup {"load"}
                /\ pc' = "em_compile"
                /\ UNCHANGED <<m, live, store, err>>
           ELSE Fail("load") /\ UNCHANGED steps
    /\ UNCHANGED <<prog, printed, attempted, data, iter, nextStore, cfg, uses,
                   timer, duration>>
    /\ UNCHANGED watVars

EmCompile ==
    /\ prog = "bench" /\ pc = "em_compile"
    /\ uses' = Append(uses, Use(store, "compile"))
    /\ \E ok \in BOOLEAN :
         IF ok
           THEN /\ steps' = steps \cup {"compile"}
                /\ pc' = "em_instantiate"
                /\ UNCHANGED <<m, live, store, err>>
           ELSE Fail("compile") /\ UNCHANGED steps
    /\ UNCHANGED <<prog, printed, attempted, data, iter, nextStore, cfg,
                   timer, duration>>
    /\ UNCHANGED watVars

EmInstantiate ==
    /\ prog = "bench" /\ pc = "em_instantiate"
    /\ uses' = Append(uses, Use(store, "instantiate"))
    /\ \E ok \in BOOLEAN :
         IF ok
           THEN /\ steps' = steps \cup {"instantiate"}
                /\ pc' = "em_export"
                /\ UNCHANGED <<m, live, store, err>>
           ELSE Fail("instantiate") /\ UNCHANGED steps
    /\ UNCHANGED <<prog, printed, attempted, data, iter, nextStore, cfg,
                   timer, duration>>
    /\ UNCHANGED watVars

EmExport ==
    /\ prog = "bench" /\ pc = "em_export"
    /\ \E ok \in BOOLEAN :
         IF ok
           THEN /\ steps' = steps \cup {"export"}
                /\ pc' = "em_timer"
                /\ UNCHANGED <<m, live, store, err>>
           ELSE Fail("export") /\ UNCHANGED steps
    /\ UNCHANGED <<prog, printed, attempted, data, iter, nextStore, cfg, uses,
                   timer, duration>>
    /\ UNCHANGED watVars

EmTimer ==
    /\ prog = "bench" /\ pc = "em_timer"
    /\ timer' = TRUE
    /\ pc' = "em_call"
    /\ UNCHANGED <<prog, m, printed, attempted, data, iter, live, nextStore,
                   store, cfg, uses, steps, duration, err>>
    /\ UNCHANGED watVars

EmCall ==
    /\ prog = "bench" /\ pc = "em_call"
    /\ uses' = Append(uses, Use(store, "invoke"))
    /\ \E ok \in BOOLEAN :
         IF ok
           THEN /\ steps' = steps \cup {"invoke"}
                /\ pc' = "em_elapsed"
                /\ UNCHANGED <<m, live, store, err>>
           ELSE Fail("invoke") /\ UNCHANGED steps
    /\ UNCHANGED <<prog, printed, attempted, data, iter, nextStore, cfg,
                   timer, duration>>
    /\ UNCHANGED watVars

EmElapsed ==
    /\ prog = "bench" /\ pc = "em_elapsed"
    /\ duration' = TRUE
    /\ live' = StoresAfterDrop(store)
    /\ store' = 0
    /\ pc' = "print"
    /\ UNCHANGED <<prog, m, printed, attempted, data, iter, nextStore, cfg,
                   uses, steps, timer, err>>
    /\ UNCHANGED watVars

\* PolyglotConfig::default(), whose fields are set outside these files
PolyCfg ==
    [compiler |-> "PolyglotConfig::default", canonicalize_nans |-> FALSE,
     verifier |-> FALSE, opt_level |-> "none"]

\* poly::instance(file, env) loads, compiles and instantiates in one call and
\* returns the Store it built; on Err no Store reaches polyglot().
PolyInstance ==
    /\ prog = "bench" /\ pc = "main" /\ m = 5
    /\ attempted' = Append(attempted, Labels[m])
    /\ timer' = TimerAtEntry /\ duration' = FALSE
    /\ \E ok \in BOOLEAN :
         IF ok
           THEN /\ live' = live \cup {nextStore}
                /\ store' = nextStore
                /\ nextStore' = nextStore + 1
                /\ cfg' = PolyCfg
                /\ uses' = uses \o <<Use(nextStore, "compile"),
                                     Use(nextStore, "instantiate")>>
                /\ steps' = {"load", "compile", "instantiate"}
                /\ pc' = "poly_export"
                /\ UNCHANGED <<m, err>>
           ELSE /\ steps' = {}
                /\ Fail("instance")
                /\ UNCHANGED <<nextStore, cfg, uses>>
    /\ UNCHANGED <<prog, printed, data, iter>>
    /\ UNCHANGED watVars

PolyExport ==
    /\ prog = "bench" /\ pc = "poly_export"
    /\ \E ok \in BOOLEAN :
         IF ok
           THEN /\ steps' = steps \cup {"export"}
                /\ pc' = "poly_timer"
                /\ UNCHANGED <<m, live, store, err>>
           ELSE Fail("export") /\ UNCHANGED steps
    /\ UNCHANGED <<prog, printed, attempted, data, iter, nextStore, cfg, uses,
                   timer, duration>>
    /\ UNCHANGED watVars

PolyTimer ==
    /\ prog = "bench" /\ pc = "poly_timer"
    /\ timer' = TRUE
    /\ pc' = "poly_call"
    /\ UNCHANGED <<prog, m, printed, attempted, data, iter, live, nextStore,
                   store, cfg, uses, steps, duration, err>>
    /\ UNCHANGED watVars

PolyCall ==
    /\ prog = "bench" /\ pc = "poly_call"
    /\ uses' = Append(uses, Use(store, "invoke"))
    /\ \E ok \in BOOLEAN :
         IF ok
           THEN /\ steps' = steps \cup {"invoke"}
                /\ pc' = "poly_elapsed"
                /\ UNCHANGED <<m, live, store, err>>
           ELSE Fail("invoke") /\ UNCHANGED steps
    /\ UNCHANGED <<prog, printed, attempted, data, iter, nextStore, cfg,
                   timer, duration>>
    /\ UNCHANGED watVars

PolyElapsed ==
    /\ prog = "bench" /\ pc = "poly_elapsed"
    /\ duration' = TRUE
    /\ live' = StoresAfterDrop(store)
    /\ store' = 0
    /\ pc' = "print"
    /\ UNCHANGED <<prog, m, printed, attempted, data, iter, nextStore, cfg,
                   uses, steps, timer, err>>
    /\ UNCHANGED watVars

\* ------------------------------------------------------------ the machine
InitBench ==
    /\ m = 1 /\ printed = <<>> /\ attempted = <<>>
    /\ data = 0 /\ iter = 0
    /\ live = {} /\ nextStore = 1 /\ store = 0 /\ cfg = NoCfg /\ uses = <<>>
    /\ steps = {} /\ timer = FALSE /\ duration = FALSE /\ err = "none"

InitWat ==
    /\ wat = wat0
    /\ k = 0 /\ j = 0 /\ identation = 0 /\ br_table = <<>>

Init ==
    /\ prog \in {"bench", "br", "br_table"}
    /\ InitBench
    /\ \/ /\ prog = "bench" /\ pc = "main"
          /\ wat0 = <<>> /\ ops = 0 /\ table_size = 0
       \/ /\ prog = "br" /\ pc = "br_loop"
          /\ wat0 \in InitialBuffers
          /\ ops \in 0..MaxOps /\ table_size = 0
       \/ /\ prog = "br_table" /\ pc = "bt_loop"
          /\ wat0 \in InitialBuffers
          /\ ops \in 0..MaxOps /\ table_size \in 0..MaxTable
    /\ InitWat

Next ==
    \/ BrIterate \/ BrWrite \/ BrEndUnit \/ BrReturn
    \/ BtIterate \/ BtOpen \/ BtConst \/ BtPush \/ BtWriteTable \/ BtClose
    \/ BtEndUnit \/ BtReturn
    \/ NativeStart \/ NativeKeccak \/ NativeAssertPass \/ NativeAssertPanic
    \/ Report
    \/ BuildStore \/ EmRead \/ EmCompile \/ EmInstantiate \/ EmExport
    \/ EmTimer \/ EmCall \/ EmElapsed
    \/ PolyInstance \/ PolyExport \/ PolyTimer \/ PolyCall \/ PolyElapsed

Spec == Init /\ [][Next]_vars

\* ------------------------------------------------------------- properties
\* the text appended by the running write_wat_ops call
Fragment == SubSeq(wat, Len(wat0) + 1, Len(wat))

Range(s) == {s[i] : i \in DOMAIN s}

\* opens minus closes of a sequence of lines
RECURSIVE Depth(_)
Depth(s) ==
    IF s = <<>> THEN 0
    ELSE LET l == s[Len(s)]
         IN  Depth(SubSeq(s, 1, Len(s) - 1))
               + (IF IsOpen(l) THEN 1 ELSE IF IsClose(l) THEN -1 ELSE 0)

CountTok(s, toks) == Cardinality({i \in DOMAIN s : s[i].tok \in toks})

\* WebAssembly br_table: the last label listed is the default, the labels
\* before it are selected by index
BrTableDispatch(sel, targets) ==
    IF sel < Len(targets) - 1 THEN targets[sel + 1] ELSE targets[Len(targets)]

InSynth == prog \in {"br", "br_table"}

\* C2: for tableSize >= 1 every br_table line emitted follows an i32.const
\* whose value indexes no entry of the target list, so the dispatch takes the
\* default (last listed) target tableSize-1, which is less than the number of
\* blocks open around the instruction.
C2_AlwaysDefaultPath ==
    (prog = "br_table" /\ table_size >= 1) =>
        \A p \in DOMAIN Fragment :
            Fragment[p].tok = "br_table" =>
                /\ p > 1
                /\ Fragment[p - 1].tok = "i32.const"
                /\ LET sel == Fragment[p - 1].args[1]
                       tg == Fragment[p].args
                       open == Depth(SubSeq(Fragment, 1, p - 1))
                   IN  /\ Len(tg) >= 1
                       /\ sel = table_size
                       /\ sel \notin 0..(Len(tg) - 1)
                       /\ BrTableDispatch(sel, tg) = tg[Len(tg)]
                       /\ tg[Len(tg)] = table_size - 1
                       /\ tg[Len(tg)] < open

C2_Witness ==
    /\ prog = "br_table" /\ table_size = 3 /\ pc = "bt_close" /\ k = 1
    /\ Fragment[Len(Fragment)].tok = "br_table"

\* C3: for tableSize >= 1 the finished br_table fragment is opsPerIteration
\* units, each tableSize opens, one i32.const tableSize, one br_table
\* 0 1 .. tableSize-1, tableSize closes, in this order.
C3_BranchTableUnits ==
    (prog = "br_table" /\ pc = "done" /\ table_size >= 1) =>
        LET ts == table_size
            U == 2 * ts + 2
            f == Fragment
        IN  /\ Len(f) = ops * U
            /\ \A u \in 0..(ops - 1) :
                 /\ \A q \in 1..ts : IsOpen(f[u * U + q])
                 /\ f[u * U + ts + 1].tok = "i32.const"
                 /\ f[u * U + ts + 1].args = <<ts>>
                 /\ f[u * U + ts + 2].tok = "br_table"
                 /\ f[u * U + ts + 2].args = [i \in 1..ts |-> i - 1]
                 /\ \A q \in (ts + 3)..U : IsClose(f[u * U + q])

C3_Witness ==
    /\ prog = "br_table" /\ pc = "done" /\ ops = 2 /\ table_size = 3
    /\ Len(Fragment) = 16

\* C4: the finished nested-branch fragment is opsPerIteration units, each 3
\* opens, one `br 2` issued with exactly 3 blocks of the unit open, 3 closes;
\* in total 3 x ops opens, 3 x ops closes and ops branches.
C4_NestedBranchUnits ==
    (prog = "br" /\ pc = "done") =>
        LET f == Fragment
        IN  /\ Len(f) = 7 * ops
            /\ \A u \in 0..(ops - 1) :
                 /\ \A q \in 1..3 : IsOpen(f[u * 7 + q])
                 /\ f[u * 7 + 4].tok = "br"
                 /\ f[u * 7 + 4].args = <<2>>
                 /\ Depth(SubSeq(f, u * 7 + 1, u * 7 + 3)) = 2 + 1
                 /\ \A q \in 5..7 : IsClose(f[u * 7 + q])
            /\ CountTok(f, {"(block", "(block "}) = 3 * ops
            /\ CountTok(f, {")"}) = 3 * ops
            /\ CountTok(f, {"br"}) = ops

C4_Witness ==
    /\ prog = "br" /\ pc = "done" /\ ops = 2
    /\ CountTok(Fragment, {"br"}) = 2

\* C5: while either synthesizer runs, no prefix of the emitted fragment has
\* more closes than opens, and at every unit boundary (loop head, return)
\* opens equal closes.
C5_BalancedNesting ==
    InSynth =>
        /\ \A n \in 0..Len(Fragment) : Depth(SubSeq(Fragment, 1, n)) >= 0
        /\ pc \in {"br_loop", "bt_loop", "done"} => Depth(Fragment) = 0

C5_Witness ==
    /\ prog = "br_table" /\ pc = "bt_loop" /\ k = 2 /\ table_size = 2
    /\ CountTok(Fragment, {"(block"}) = 4 /\ CountTok(Fragment, {")"}) = 4

\* C9: with opsPerIteration = 0 both synthesizers leave the buffer as it was,
\* never enter the loop body, and return.
C9_ZeroOpsNoOp ==
    (InSynth /\ ops = 0) =>
        /\ wat = wat0
        /\ pc \in {"br_loop", "bt_loop", "done"}
        /\ err = "none"

C9_Witness ==
    /\ prog = "br_table" /\ ops = 0 /\ table_size = 3 /\ pc = "done"
    /\ wat0 # <<>> /\ wat = wat0

\* C6: the lines printed so far are always a prefix of Native, LLVM, Crane,
\* Single, Poly.
C6_FixedReportOrder ==
    prog = "bench" =>
        LET order == <<"Native", "LLVM", "Crane", "Single", "Poly">>
        IN  /\ Len(printed) <= Len(order)
            /\ \A i \in DOMAIN printed : printed[i] = order[i]

C6_Witness ==
    /\ prog = "bench" /\ pc = "ok"
    /\ printed = <<"Native", "LLVM", "Crane", "Single", "Poly">>

\* C7: the all-zero check of native() comes before the report: once the loop
\* has ended with an all-zero buffer the run is stopped by the assertion, with
\* no duration and no Native line; a Native line implies a non-zero buffer.
C7_BaselineCheckedBeforeReport ==
    prog = "bench" =>
        /\ (iter >= KeccakRounds /\ data = 0 /\ pc # "native_loop")
              => (pc = "panicked" /\ printed = <<>> /\ ~duration)
        /\ "Native" \in Range(printed) => data # 0
        /\ pc = "panicked" => (data = 0 /\ printed = <<>>)

C7_Witness ==
    /\ prog = "bench" /\ pc = "panicked" /\ iter = KeccakRounds /\ data = 0
    /\ printed = <<>>

\* C8: at most one Store exists at any time, it is the one the running
\* measurement owns, and a Store is used by one measurement only, once per
\* step (compile, instantiate, invoke).
C8_StorePerMeasurement ==
    prog = "bench" =>
        /\ Cardinality(live) <= 1
        /\ live = (IF store = 0 THEN {} ELSE {store})
        /\ \A a, b \in DOMAIN uses :
             uses[a].store = uses[b].store =>
                 /\ uses[a].meas = uses[b].meas
                 /\ (a # b => uses[a].step # uses[b].step)

C8_Witness ==
    /\ prog = "bench" /\ pc = "ok"
    /\ Cardinality({uses[i].store : i \in DOMAIN uses}) = 4
    /\ Len(uses) = 12

\* C10: in a module measurement the start timestamp exists only once load,
\* compile, instantiate and export lookup have succeeded, the step after it
\* is the invocation, a duration exists only after the invocation succeeded,
\* and a failed measurement has no duration.
C10_TimedInvocationOnly ==
    (prog = "bench" /\ m >= 2 /\ Len(attempted) = m) =>
        /\ timer => {"load", "compile", "instantiate", "export"} \subseteq steps
        /\ (timer /\ "invoke" \notin steps /\ pc # "failed")
              => pc \in {"em_call", "poly_call"}
        /\ duration => (timer /\ "invoke" \in steps)
        /\ pc = "failed" => ~duration

C10_Witness ==
    /\ prog = "bench" /\ pc = "em_call" /\ m = 3 /\ timer
    /\ steps = {"load", "compile", "instantiate", "export"}

\* C1 as stated: when a measurement has failed and the run has ended, every
\* other measurement of the sequence has been performed.
C1_FailureAbortsOnlyThatMeasurement ==
    (prog = "bench" /\ pc = "failed") =>
        \A i \in (1..Len(Labels)) \ {m} : Labels[i] \in Range(attempted)

\* C1 amended: a failure of measurement m ends the run there: measurements
\* 1..m-1 were performed and reported, m was started and has no line, and no
\* later measurement is performed.
C1_FailureAbortsRun ==
    (prog = "bench" /\ err \notin {"none", "assert_ne"}) =>
        /\ pc = "failed"
        /\ attempted = SubSeq(Labels, 1, m)
        /\ printed = SubSeq(Labels, 1, m - 1)
        /\ ~duration
        /\ ~ENABLED Next

C1_Witness ==
    /\ prog = "bench" /\ pc = "failed" /\ err = "compile" /\ m = 3
    /\ printed = <<"Native", "LLVM">>

====
